---- MODULE Spec2Model ----
(***************************************************************************)
(* Model of the oracle-cron route handlers (GET).                          *)
(*                                                                         *)
(* The repository holds four near-duplicate GET handlers:                  *)
(*   "nowSec"     src/unnamed/part_000            prices, bands, FX, audit  *)
(*   "moduleNow"  src/src/app/api/run/route.js:1-282   prices, bands, FX    *)
(*   "rowNow"     src/src/app/api/run/route.js:284-502 prices, bands        *)
(*   "pricesOnly" src/unnamed/part_001            prices                    *)
(* One of them is the deployed route; `variant` says which.                *)
(*                                                                         *)
(* Every await of a handler is one step of the model.  Texts are sequences *)
(* of one-character strings.  Decimal numbers are records                  *)
(* [ok, neg, mant, frac] meaning (neg ? -1 : 1) * mant / 10^frac, with     *)
(* ok = FALSE standing for null / NaN.                                     *)
(***************************************************************************)
EXTENDS Integers, Sequences, FiniteSets, TLC

\* ---------------------------------------------------------------- bounds
MaxRows == 3
MaxClock == 2
MaxInvocations == 2
MaxTextLen == 3

\* ---------------------------------------------------------------- config
Handlers == {"nowSec", "moduleNow", "rowNow", "pricesOnly"}

HasBands(v) == v # "pricesOnly"
HasFx(v) == v \in {"nowSec", "moduleNow"}
HasAudit(v) == v = "nowSec"

TARGET_SET == {"MTNN", "UBA", "GTCO", "ZENITHBANK", "ARADEL", "TOTALNG", "AIICO",
               "CORNERST", "OKOMUOIL", "PRESCO", "NESTLE", "DANGSUGAR"}

DEFAULT_BAND_WIDTH_BPS == 150
DEFAULT_RATE == 1500
ngnAsset == "0x6a1e8c"
ZeroMsgId == "0x00"

\* process.env[code]: two watchlist tickers have an address configured, and so
\* has one name outside the watchlist (any environment variable answers the
\* lookup); the others have none.
Env(code) == CASE code = "MTNN" -> "0xA1"
               [] code = "UBA" -> "0xA2"
               [] code = "XYZ" -> "0xA3"
               [] OTHER -> ""

\* ---------------------------------------------------------------- texts
Digits == {"0", "1", "2", "3", "4", "5", "6", "7", "8", "9"}

DigitVal(c) == CASE c = "0" -> 0 [] c = "1" -> 1 [] c = "2" -> 2 [] c = "3" -> 3
                 [] c = "4" -> 4 [] c = "5" -> 5 [] c = "6" -> 6 [] c = "7" -> 7
                 [] c = "8" -> 8 [] c = "9" -> 9

Null == [ok |-> FALSE, neg |-> FALSE, mant |-> 0, frac |-> 0]

Num(neg, mant, frac) == [ok |-> TRUE, neg |-> neg, mant |-> mant, frac |-> frac]

RECURSIVE Pow10(_)
Pow10(n) == IF n = 0 THEN 1 ELSE 10 * Pow10(n - 1)

\* String.prototype.replace(/[...]+/g, ""): drop every character of `set`.
StripChars(s, set) == SelectSeq(s, LAMBDA c : c \notin set)

RECURSIVE TrimLeft(_)
TrimLeft(s) == IF s # <<>> /\ Head(s) = " " THEN TrimLeft(Tail(s)) ELSE s

RECURSIVE TrimRight(_)
TrimRight(s) == IF s # <<>> /\ s[Len(s)] = " "
                  THEN TrimRight(SubSeq(s, 1, Len(s) - 1)) ELSE s

\* String.prototype.trim()
Trim(s) == TrimRight(TrimLeft(s))

RECURSIVE DigitsVal(_)
DigitsVal(s) == IF s = <<>> THEN 0
                ELSE 10 * DigitsVal(SubSeq(s, 1, Len(s) - 1)) + DigitVal(s[Len(s)])

HexDigits == Digits \cup {"a", "b", "c", "d", "e", "f"}

HexDigitVal(c) == CASE c = "a" -> 10 [] c = "b" -> 11 [] c = "c" -> 12
                    [] c = "d" -> 13 [] c = "e" -> 14 [] c = "f" -> 15
                    [] OTHER -> DigitVal(c)

RECURSIVE HexVal(_)
HexVal(s) == IF s = <<>> THEN 0
             ELSE 16 * HexVal(SubSeq(s, 1, Len(s) - 1)) + HexDigitVal(s[Len(s)])

\* An unsigned hexadecimal literal: "0x" and at least one hex digit.
IsHexLiteral(s) ==
  /\ Len(s) >= 3
  /\ s[1] = "0" /\ s[2] = "x"
  /\ \A k \in 3..Len(s) : s[k] \in HexDigits

\* Number(s) on the modelled alphabet: signed decimal literals (digits, "."),
\* unsigned hexadecimal literals; anything else is NaN (ok = FALSE).
\* Number("") is 0.
JsNumber(s0) ==
  LET s == Trim(s0)
      signed == s # <<>> /\ Head(s) \in {"+", "-"}
      body == IF signed THEN Tail(s) ELSE s
      dots == {k \in 1..Len(body) : body[k] = "."}
      digs == StripChars(body, {"."})
      wellFormed == /\ \A k \in 1..Len(body) : body[k] \in Digits \cup {"."}
                    /\ Cardinality(dots) <= 1
                    /\ digs # <<>>
      frac == IF dots = {} THEN 0 ELSE Len(body) - (CHOOSE k \in dots : TRUE)
  IN IF s = <<>> THEN Num(FALSE, 0, 0)
     ELSE IF IsHexLiteral(s) THEN Num(FALSE, HexVal(SubSeq(s, 3, Len(s))), 0)
     ELSE IF ~wellFormed THEN Null
     ELSE Num(signed /\ Head(s) = "-", DigitsVal(digs), frac)

toNumber(txt) ==
  IF txt = <<>> THEN Null
  ELSE LET clean == Trim(StripChars(txt, {",", " "}))
       IN IF clean = <<"-">> \/ clean = <<>> THEN Null ELSE JsNumber(clean)

parsePercent(txt) ==
  IF txt = <<>> THEN Null
  ELSE LET t == Trim(StripChars(txt, {" ", ",", "%", "+"}))
       IN IF t = <<"-">> \/ t = <<>> THEN Null
          ELSE LET neg == Head(Trim(txt)) = "-"
                   num == JsNumber(IF Head(t) = "-" THEN Tail(t) ELSE t)
               IN IF ~num.ok THEN Null
                  ELSE Num(num.neg # neg, num.mant, num.frac + 2)

\* Math.round(x / d) for d > 0: nearest integer, ties towards +Infinity.
RoundDiv(x, d) == LET q == x \div d
                      r == x - q * d
                  IN IF 2 * r >= d THEN q + 1 ELSE q

\* E6, were the scaled price truncated (Math.trunc) instead of rounded.
E6Truncates(n) ==
  LET m == IF n.neg THEN 0 - n.mant ELSE n.mant
      d == Pow10(n.frac - 6)
  IN IF n.frac <= 6 THEN m * Pow10(6 - n.frac)
     ELSE IF m >= 0 THEN m \div d ELSE 0 - ((0 - m) \div d)

\* BigInt(Math.round(price * 1e6))
E6(n) == LET m == IF n.neg THEN 0 - n.mant ELSE n.mant
         IN IF n.frac <= 6 THEN m * Pow10(6 - n.frac)
            ELSE RoundDiv(m, Pow10(n.frac - 6))

\* ---------------------------------------------------------------- inputs
Txt250 == <<"2", "5", "0", ".", "5", "0">>
Txt1234 == <<"1", ",", "2", "3", "4", ".", "5", "0">>
TxtDayUp == <<"+", "1", ".", "2", "0", "%">>
TxtYtdDown == <<"-", "3", ".", "4", "0", "%">>
TxtDash == <<"-">>
TxtNeg == <<"-", "0", ".", "0", "0", "0", "0", "0", "2", "6">>
TxtTwelve == <<" ", "1", "2">>

Row(code, price, day, ytd) == [code |-> code, price |-> price, day |-> day, ytd |-> ytd]

\* No row at hand: outside the loop over the table's rows.
NoRow == Row("", <<>>, <<>>, <<>>)

\* The table rows a listings page can carry (code as extractCode returns it).
RowPool == {Row("MTNN", Txt250, TxtDayUp, TxtYtdDown),
            Row("UBA", Txt1234, TxtDash, <<>>),
            Row("UBA", TxtDash, TxtDayUp, TxtDash),
            Row("UBA", TxtNeg, TxtDayUp, TxtYtdDown),
            Row("GTCO", TxtTwelve, TxtDayUp, TxtYtdDown),
            Row("XYZ", Txt250, TxtDayUp, TxtYtdDown),
            Row("", Txt250, TxtDash, TxtDash)}

\* body.data.CNGN[0].quote.USD.price as a fraction num/den; num = 0: no price.
UsdPrices == {[num |-> 62, den |-> 100000], [num |-> 0, den |-> 1]}

\* ---------------------------------------------------------------- state
VARIABLES variant, hasSetBands, hasKey, moduleNow,
          wall, chain,
          inv,
          pc, fetches, table, ts, rowsRead, tr, rows,
          priceAssets, pricePayloads, bandAssets, bandPayloads, warnNoAddr,
          i, priceTxHash, bandTxHash, log,
          tsFx, rateE6, priceLoad, bandLoad, fxState,
          audit, resp,
          seqSent,
          opc, ostarted, ostore

\* Two requests served at once (see "overlap" below): where each of them is,
\* the order they started in, and whose write the oracle stores.  The steps of
\* the single request leave these alone.
overlap == <<opc, ostarted, ostore>>

cfg == <<variant, hasSetBands, hasKey, moduleNow, overlap>>
clocks == <<wall, chain>>
\* inv counts the requests; seqSent[a] is the greatest sequence value a price
\* transaction submitted so far carried for asset a (0: none yet), kept by the
\* steps of "sequence history" below.
invoc == <<inv, seqSent>>
scrape == <<fetches, table, ts, rowsRead, tr, rows, priceAssets, pricePayloads,
            bandAssets, bandPayloads, warnNoAddr>>
submit == <<i, priceTxHash, bandTxHash>>
fxLoad == <<tsFx, rateE6, priceLoad, bandLoad>>
fx == <<fxLoad, fxState>>
vars == <<cfg, clocks, invoc, pc, scrape, submit, log, fx, audit, resp>>

NoPayload == [priceE6 |-> 0, seq |-> 0, ts |-> 0, hcsMsgId |-> ZeroMsgId]
NoBand == [midE6 |-> 0, widthBps |-> 0, ts |-> 0]
NoResp == [shape |-> "none", success |-> FALSE, pricesUpdated |-> 0, bandsUpdated |-> 0,
           priceTxHash |-> 0, bandTxHash |-> 0, count |-> 0]

\* Invocation-local state as the handler's declarations leave it (null = 0).
Locals ==
  /\ fetches = 0 /\ table = "none" /\ ts = 0
  /\ rowsRead = 0 /\ tr = NoRow /\ rows = <<>>
  /\ priceAssets = <<>> /\ pricePayloads = <<>>
  /\ bandAssets = <<>> /\ bandPayloads = <<>> /\ warnNoAddr = ""
  /\ i = 0 /\ priceTxHash = 0 /\ bandTxHash = 0 /\ log = <<>>
  /\ tsFx = 0 /\ rateE6 = 0
  /\ priceLoad = NoPayload /\ bandLoad = NoBand /\ fxState = "none"
  /\ audit = "none" /\ resp = NoResp

\* The assets a price call can name: the configured watchlist addresses and
\* the synthetic FX asset.
OracleAssets == ({Env(c) : c \in TARGET_SET} \ {""}) \cup {ngnAsset}

NothingSent == seqSent = [a \in OracleAssets |-> 0]

\* The requests that can overlap.
Runs == {1, 2}

\* No request of the overlap view has started; the oracle stores no write of theirs.
OverlapIdle ==
  /\ opc = [id \in Runs |-> "idle"]
  /\ ostarted = <<>>
  /\ ostore = [price |-> 0, band |-> 0]

Init ==
  /\ OverlapIdle
  /\ variant \in Handlers
  /\ hasSetBands \in BOOLEAN
  /\ (variant = "pricesOnly" => ~hasSetBands)
  /\ hasKey \in BOOLEAN
  /\ wall = 1 /\ chain = 1
  /\ moduleNow = IF variant = "moduleNow" THEN wall ELSE 0
  /\ inv = 0
  /\ NothingSent
  /\ pc = "idle"
  /\ Locals

\* ---------------------------------------------------------------- clocks
\* Math.floor(Date.now() / 1000): the wall clock never runs backwards.
DateNow(v) == wall' \in wall..MaxClock /\ v = wall'

\* nowSec(provider): the latest block's timestamp, or the wall clock when the
\* block read throws or yields nothing.
NowSec(v, src) ==
  \/ /\ src = "chain"
     /\ chain' \in chain..MaxClock
     /\ v = chain'
     /\ wall' = wall
  \/ /\ src = "wall"
     /\ chain' = chain
     /\ DateNow(v)

\* ---------------------------------------------------------------- responses
Success == [shape |-> "full", success |-> TRUE,
            pricesUpdated |-> Len(priceAssets), bandsUpdated |-> Len(bandAssets),
            priceTxHash |-> priceTxHash, bandTxHash |-> bandTxHash, count |-> 0]

\* as Success, with bandTxHash taken after the action's own assignment to it
SuccessWith(bandHash) == [Success EXCEPT !.bandTxHash = bandHash]

SuccessCount == [shape |-> "count", success |-> TRUE, pricesUpdated |-> 0,
                 bandsUpdated |-> 0, priceTxHash |-> 0, bandTxHash |-> 0,
                 count |-> Len(priceAssets)]

Failure == [shape |-> "error", success |-> FALSE, pricesUpdated |-> 0,
            bandsUpdated |-> 0, priceTxHash |-> 0, bandTxHash |-> 0, count |-> 0]

\* Catch, were the error swallowed without a response.
CatchNoResponse == pc' = "done" /\ resp' = resp

\* the outer catch: return { success: false, error }
Catch == pc' = "done" /\ resp' = Failure

\* ---------------------------------------------------------------- ledger
\* One entry per oracle write call; a transaction's hash is its index.
Entry(op, asset, st) == [op |-> op, asset |-> asset, st |-> st, applied |-> FALSE]
Issue(op, asset) == Append(log, Entry(op, asset, "pending"))
Threw(op, asset) == Append(log, Entry(op, asset, "threw"))
Settle(st, applied) == [log EXCEPT ![Len(log)] = [@ EXCEPT !.st = st, !.applied = applied]]

\* seqSent after a price transaction carrying `payloads` for `assets` was
\* submitted.
Sent(assets, payloads) ==
  [a \in OracleAssets |->
     LET seqs == {payloads[k].seq : k \in {k \in 1..Len(assets) : assets[k] = a}}
                   \cup {seqSent[a]}
     IN CHOOSE m \in seqs : \A n \in seqs : n <= m]

\* ---------------------------------------------------------------- GET: scrape
\* A trigger starts the handler; time has passed since the last event.
Start ==
  /\ pc \in {"idle", "done"}
  /\ inv < MaxInvocations
  /\ inv' = inv + 1
  /\ seqSent' = seqSent
  /\ wall' \in wall..MaxClock
  /\ chain' \in chain..MaxClock
  /\ fetches' = 0 /\ table' = "none" /\ ts' = 0
  /\ rowsRead' = 0 /\ tr' = NoRow /\ rows' = <<>>
  /\ priceAssets' = <<>> /\ pricePayloads' = <<>>
  /\ bandAssets' = <<>> /\ bandPayloads' = <<>> /\ warnNoAddr' = ""
  /\ i' = 0 /\ priceTxHash' = 0 /\ bandTxHash' = 0 /\ log' = <<>>
  /\ tsFx' = 0 /\ rateE6' = 0
  /\ priceLoad' = NoPayload /\ bandLoad' = NoBand /\ fxState' = "none"
  /\ audit' = "none"
  /\ IF hasKey THEN pc' = "fetch" /\ resp' = NoResp ELSE Catch
  /\ UNCHANGED cfg

\* axios.get(URL) rejects: network error, timeout, non-2xx status.
FetchFail ==
  /\ pc = "fetch"
  /\ fetches' = fetches + 1
  /\ Catch
  /\ UNCHANGED <<cfg, clocks, invoc, table, ts, rowsRead, tr, rows, priceAssets,
                 pricePayloads, bandAssets, bandPayloads, warnNoAddr, submit, log,
                 fx, audit>>

\* The guard on the located table.  A cheerio selection is an object, never
\* falsy, so `!$table` alone never holds; `$table.length === 0` does.
TableMissing(found) ==
  IF variant = "pricesOnly" THEN FALSE ELSE ~found

\* axios.get(URL) resolves; `found` says whether a table passes the header filter.
FetchOk(found) ==
  /\ pc = "fetch"
  /\ fetches' = fetches + 1
  /\ table' = IF found THEN "found" ELSE "missing"
  /\ IF TableMissing(found) THEN Catch
     ELSE /\ resp' = resp
          /\ pc' = IF variant = "nowSec" THEN "ts" ELSE "rows"
  /\ UNCHANGED <<cfg, clocks, invoc, ts, rowsRead, tr, rows, priceAssets,
                 pricePayloads, bandAssets, bandPayloads, warnNoAddr, submit, log,
                 fx, audit>>

\* const ts = await nowSec(provider)
EquityTs ==
  /\ pc = "ts"
  /\ \E v \in 1..MaxClock, src \in {"chain", "wall"} :
       /\ NowSec(v, src)
       /\ ts' = v
  /\ pc' = "rows"
  /\ UNCHANGED <<cfg, invoc, fetches, table, rowsRead, tr, rows, priceAssets,
                 pricePayloads, bandAssets, bandPayloads, warnNoAddr, submit, log,
                 fx, audit, resp>>

\* ---------------------------------------------------------------- GET: rows
PricePayload(px, t) == [priceE6 |-> px, seq |-> t, ts |-> t, hcsMsgId |-> ZeroMsgId]
BandPayload(px, t) == [midE6 |-> px, widthBps |-> DEFAULT_BAND_WIDTH_BPS, ts |-> t]

\* Skips, were the watchlist test left out.
SkipsOffList(r) ==
  \/ r.code = ""
  \/ ~toNumber(Trim(r.price)).ok
  \/ Env(r.code) = ""

\* Whether a row of the table is skipped before anything is pushed.
Skips(r) ==
  \/ r.code = "" \/ r.code \notin TARGET_SET
  \/ ~toNumber(Trim(r.price)).ok
  \/ Env(r.code) = ""

\* Warns, were the warning never logged.
WarnsNothing(r) == ""

\* The missing-address warning of a row ("" when the row logs none).
Warns(r) ==
  IF /\ r.code # "" /\ r.code \in TARGET_SET
     /\ toNumber(Trim(r.price)).ok
     /\ Env(r.code) = ""
  THEN r.code ELSE ""

\* The listings table has one row per company: no ticker is listed again
\* after a row of it was taken up.
Listed(r) == \A k \in 1..Len(rows) : rows[k].ticker # r.code

\* The timestamp a row's payloads are stamped with: the request's nowSec
\* snapshot, the module-level `now`, or a Date.now() read inside the row (`t`).
RowTs(t) == CASE variant = "nowSec" -> ts
              [] variant = "moduleNow" -> moduleNow
              [] OTHER -> t

\* One iteration of $table.find("tbody tr").each(...).  A missing table
\* (pricesOnly) has no rows to iterate.
ProcessRow(r) ==
  /\ pc = "rows"
  /\ table = "found"
  /\ Listed(r)
  /\ rowsRead < MaxRows
  /\ rowsRead' = rowsRead + 1
  /\ tr' = r
  /\ warnNoAddr' = Warns(r)
  /\ IF Skips(r)
     THEN UNCHANGED <<clocks, ts, rows, priceAssets, pricePayloads,
                      bandAssets, bandPayloads>>
     ELSE \E t \in 1..MaxClock :
            /\ IF variant \in {"rowNow", "pricesOnly"}
               THEN DateNow(t) /\ chain' = chain /\ ts' = t
               ELSE t = 1 /\ UNCHANGED <<clocks, ts>>
            /\ LET pxE6 == E6(toNumber(Trim(r.price)))
               IN /\ priceAssets' = Append(priceAssets, Env(r.code))
                  /\ pricePayloads' = Append(pricePayloads, PricePayload(pxE6, RowTs(t)))
                  /\ IF HasBands(variant)
                     THEN /\ bandAssets' = Append(bandAssets, Env(r.code))
                          /\ bandPayloads' = Append(bandPayloads, BandPayload(pxE6, RowTs(t)))
                     ELSE UNCHANGED <<bandAssets, bandPayloads>>
            /\ rows' = Append(rows, [ticker |-> r.code,
                                     price |-> toNumber(Trim(r.price)),
                                     day |-> parsePercent(Trim(r.day)),
                                     ytd |-> parsePercent(Trim(r.ytd))])
  /\ UNCHANGED <<cfg, invoc, pc, fetches, table, submit, log, fx, audit, resp>>

\* The loop is over: console.table(rows) and on to the price phase.
EndRows ==
  /\ pc = "rows"
  /\ pc' = "prices"
  /\ rowsRead' = 0
  /\ tr' = NoRow
  /\ warnNoAddr' = ""
  /\ UNCHANGED <<cfg, clocks, invoc, fetches, table, ts, rows, priceAssets,
                 pricePayloads, bandAssets, bandPayloads, submit, log, fx, audit,
                 resp>>

\* ---------------------------------------------------------------- GET: prices
\* What follows the price phase: the band phase, or (pricesOnly) the response.
AfterPrices ==
  IF HasBands(variant)
  THEN pc' = "bands" /\ resp' = resp
  ELSE pc' = "done" /\ resp' = SuccessCount

\* HasPrices, were the emptiness test dropped.
HasPricesAlways == Len(priceAssets) >= 0

\* if (priceAssets.length > 0) ... else console.warn("No prices to update")
HasPrices == Len(priceAssets) > 0

PricesSkip ==
  /\ pc = "prices"
  /\ ~HasPrices
  /\ AfterPrices
  /\ UNCHANGED <<cfg, clocks, invoc, scrape, submit, log, fx, audit>>

\* await oracleHub.setPrices(priceAssets, pricePayloads) resolves with a tx.
SetPricesSubmit ==
  /\ pc = "prices"
  /\ HasPrices
  /\ log' = Issue("setPrices", "batch")
  /\ pc' = "pricesWait"
  /\ UNCHANGED <<cfg, clocks, invoc, scrape, submit, fx, audit, resp>>

\* PriceFailure, were the price-phase error swallowed.
PriceFailureFallsThrough == AfterPrices

\* A price-phase error reaches the outer catch.
PriceFailure == Catch

\* ... or rejects (gas estimation, RPC, encoding).
SetPricesThrow ==
  /\ pc = "prices"
  /\ HasPrices
  /\ log' = Threw("setPrices", "batch")
  /\ PriceFailure
  /\ UNCHANGED <<cfg, clocks, invoc, scrape, submit, fx, audit>>

\* await tx.wait() resolves: priceTxHash = tx.hash
SetPricesConfirmed ==
  /\ pc = "pricesWait"
  /\ log' = Settle("confirmed", TRUE)
  /\ priceTxHash' = Len(log)
  /\ AfterPrices
  /\ UNCHANGED <<cfg, clocks, invoc, scrape, i, bandTxHash, fx, audit>>

\* await tx.wait() rejects; the transaction reverted (applied = FALSE) or the
\* wait itself failed while the transaction took effect (applied = TRUE).
SetPricesWaitFail(applied) ==
  /\ pc = "pricesWait"
  /\ log' = Settle("failed", applied)
  /\ PriceFailure
  /\ UNCHANGED <<cfg, clocks, invoc, scrape, submit, fx, audit>>

\* ---------------------------------------------------------------- GET: bands
\* AfterBands, were the FX phase left out.
AfterBandsSkipsFx(bandHash) ==
  IF HasAudit(variant)
  THEN pc' = "auditMax" /\ resp' = resp
  ELSE pc' = "done" /\ resp' = SuccessWith(bandHash)

\* What follows the band phase: the FX phase, or (rowNow) the response.
AfterBands(bandHash) ==
  IF HasFx(variant)
  THEN pc' = (IF variant = "nowSec" THEN "fxTs" ELSE "fxFetch") /\ resp' = resp
  ELSE pc' = "done" /\ resp' = SuccessWith(bandHash)

\* if (bandAssets.length > 0) ... else console.warn("No bands to update")
HasBandAssets == Len(bandAssets) > 0

BandsSkip ==
  /\ pc = "bands"
  /\ ~HasBandAssets
  /\ AfterBands(bandTxHash)
  /\ UNCHANGED <<cfg, clocks, invoc, scrape, submit, log, fx, audit>>

\* typeof oracleHub.setBands !== "function": straight to the setBand loop.
NoSetBands ==
  /\ pc = "bands"
  /\ HasBandAssets
  /\ ~hasSetBands
  /\ i' = 1
  /\ pc' = "fbCall"
  /\ UNCHANGED <<cfg, clocks, invoc, scrape, priceTxHash, bandTxHash, log, fx,
                 audit, resp>>

SetBandsSubmit ==
  /\ pc = "bands"
  /\ HasBandAssets
  /\ hasSetBands
  /\ log' = Issue("setBands", "batch")
  /\ pc' = "bandsWait"
  /\ UNCHANGED <<cfg, clocks, invoc, scrape, submit, fx, audit, resp>>

\* catch (e) around setBands and its wait: enter the setBand loop at i = 0
\* (indices are 1-based here).
SetBandsThrow ==
  /\ pc = "bands"
  /\ HasBandAssets
  /\ hasSetBands
  /\ log' = Threw("setBands", "batch")
  /\ i' = 1
  /\ pc' = "fbCall"
  /\ UNCHANGED <<cfg, clocks, invoc, scrape, priceTxHash, bandTxHash, fx, audit,
                 resp>>

\* SetBandsConfirmed, were the setBand loop run after a confirmed batch too.
SetBandsConfirmedThenLoop ==
  /\ pc = "bandsWait"
  /\ log' = Settle("confirmed", TRUE)
  /\ bandTxHash' = Len(log)
  /\ i' = 1
  /\ pc' = "fbCall"
  /\ UNCHANGED <<cfg, clocks, invoc, scrape, priceTxHash, fx, audit, resp>>

SetBandsConfirmed ==
  /\ pc = "bandsWait"
  /\ log' = Settle("confirmed", TRUE)
  /\ bandTxHash' = Len(log)
  /\ AfterBands(Len(log))
  /\ UNCHANGED <<cfg, clocks, invoc, scrape, i, priceTxHash, fx, audit>>

SetBandsWaitFail(applied) ==
  /\ pc = "bandsWait"
  /\ log' = Settle("failed", applied)
  /\ i' = 1
  /\ pc' = "fbCall"
  /\ UNCHANGED <<cfg, clocks, invoc, scrape, priceTxHash, bandTxHash, fx, audit,
                 resp>>

\* FallbackFailure, were the error of a per-asset call logged and passed over.
FallbackFailureSwallowed == AfterBands(bandTxHash)

\* An error of a per-asset setBand or of its wait: no try/catch surrounds the
\* loop body, so the error leaves the loop and reaches the outer catch.
FallbackFailure == Catch

\* SetBandSubmit, were tx1.wait() not awaited before the next iteration.
SetBandSubmitNoWait ==
  /\ pc = "fbCall"
  /\ log' = Issue("setBand", bandAssets[i])
  /\ bandTxHash' = Len(log) + 1
  /\ i' = i + 1
  /\ IF i < Len(bandAssets)
     THEN pc' = "fbCall" /\ resp' = resp
     ELSE AfterBands(Len(log) + 1)
  /\ UNCHANGED <<cfg, clocks, invoc, scrape, priceTxHash, fx, audit>>

\* const tx1 = await oracleHub.setBand(bandAssets[i], bandPayloads[i])
SetBandSubmit ==
  /\ pc = "fbCall"
  /\ log' = Issue("setBand", bandAssets[i])
  /\ pc' = "fbWait"
  /\ UNCHANGED <<cfg, clocks, invoc, scrape, submit, fx, audit, resp>>

SetBandThrow ==
  /\ pc = "fbCall"
  /\ log' = Threw("setBand", bandAssets[i])
  /\ FallbackFailure
  /\ UNCHANGED <<cfg, clocks, invoc, scrape, submit, fx, audit>>

\* await tx1.wait() resolves: bandTxHash = tx1.hash; i++
SetBandConfirmed ==
  /\ pc = "fbWait"
  /\ log' = Settle("confirmed", TRUE)
  /\ bandTxHash' = Len(log)
  /\ i' = i + 1
  /\ IF i < Len(bandAssets)
     THEN pc' = "fbCall" /\ resp' = resp
     ELSE AfterBands(Len(log))
  /\ UNCHANGED <<cfg, clocks, invoc, scrape, priceTxHash, fx, audit>>

SetBandWaitFail(applied) ==
  /\ pc = "fbWait"
  /\ log' = Settle("failed", applied)
  /\ FallbackFailure
  /\ UNCHANGED <<cfg, clocks, invoc, scrape, submit, fx, audit>>

\* ---------------------------------------------------------------- GET: FX
\* What follows the FX phase: the freshness audit, or (moduleNow) the response.
AfterFx(bandHash) ==
  IF HasAudit(variant)
  THEN pc' = "auditMax" /\ resp' = resp
  ELSE pc' = "done" /\ resp' = SuccessWith(bandHash)

\* FxCatch, were the FX error rethrown to the outer catch.
FxCatchPropagates == Catch /\ fxState' = "failed"

\* catch (error) of the FX try block: log and go on.
FxCatch == AfterFx(bandTxHash) /\ fxState' = "failed"

\* The timestamp of the FX payloads: tsFx, or the module-level `now`.
FxStamp == IF variant = "nowSec" THEN tsFx ELSE moduleNow

\* rateNum to 2 decimals from 1 / priceUSD when priceUSD > 0, else the default;
\* rateE6 = round(rateNum * 1e6).  (moduleNow multiplies the toFixed(2) text
\* by 1e6 without rounding; a product that is no integer makes setPrice throw.)
RateE6(p) == IF p.num > 0 THEN RoundDiv(p.den * 100, p.num) * Pow10(4)
             ELSE DEFAULT_RATE * Pow10(6)

FxBuild(p) ==
  /\ rateE6' = RateE6(p)
  /\ bandLoad' = [midE6 |-> RateE6(p), widthBps |-> DEFAULT_BAND_WIDTH_BPS,
                  ts |-> FxStamp]
  /\ priceLoad' = PricePayload(RateE6(p), FxStamp)

\* const tsFx = await nowSec(provider)
FxTs ==
  /\ pc = "fxTs"
  /\ \E v \in 1..MaxClock, src \in {"chain", "wall"} :
       /\ NowSec(v, src)
       /\ tsFx' = v
  /\ pc' = "fxFetch"
  /\ UNCHANGED <<cfg, invoc, scrape, submit, log, rateE6, priceLoad, bandLoad,
                 fxState, audit, resp>>

\* await fetch(...) rejects: the FX try block is left.
FxFetchThrow ==
  /\ pc = "fxFetch"
  /\ FxCatch
  /\ UNCHANGED <<cfg, clocks, invoc, scrape, submit, log, fxLoad, audit>>

\* await fetch(...) resolves with status 200 (ok) or another status.
FxFetchStatus(ok) ==
  /\ pc = "fxFetch"
  /\ IF ok THEN pc' = "fxJson" /\ UNCHANGED <<rateE6, priceLoad, bandLoad>>
     ELSE pc' = "fxPrice" /\ FxBuild([num |-> 0, den |-> 1])
  /\ UNCHANGED <<cfg, clocks, invoc, scrape, submit, log, tsFx, fxState,
                 audit, resp>>

\* await r.json() rejects, or the walk down the body throws.
FxJsonThrow ==
  /\ pc = "fxJson"
  /\ FxCatch
  /\ UNCHANGED <<cfg, clocks, invoc, scrape, submit, log, fxLoad, audit>>

FxJson(p) ==
  /\ pc = "fxJson"
  /\ FxBuild(p)
  /\ pc' = "fxPrice"
  /\ UNCHANGED <<cfg, clocks, invoc, scrape, submit, log, tsFx, fxState,
                 audit, resp>>

\* const tx3 = await oracleHub.setPrice(ngnAsset, priceLoad)
FxSetPriceSubmit ==
  /\ pc = "fxPrice"
  /\ log' = Issue("setPrice", ngnAsset)
  /\ pc' = "fxPriceWait"
  /\ UNCHANGED <<cfg, clocks, invoc, scrape, submit, fx, audit, resp>>

FxSetPriceThrow ==
  /\ pc = "fxPrice"
  /\ log' = Threw("setPrice", ngnAsset)
  /\ FxCatch
  /\ UNCHANGED <<cfg, clocks, invoc, scrape, submit, fxLoad, audit>>

FxSetPriceConfirmed ==
  /\ pc = "fxPriceWait"
  /\ log' = Settle("confirmed", TRUE)
  /\ pc' = "fxBand"
  /\ UNCHANGED <<cfg, clocks, invoc, scrape, submit, fx, audit, resp>>

\* FxSetPriceWaitFail, were the failed confirmation logged and passed over.
FxSetPriceWaitFailIgnored(applied) ==
  /\ pc = "fxPriceWait"
  /\ log' = Settle("failed", applied)
  /\ pc' = "fxBand"
  /\ UNCHANGED <<cfg, clocks, invoc, scrape, submit, fx, audit, resp>>

FxSetPriceWaitFail(applied) ==
  /\ pc = "fxPriceWait"
  /\ log' = Settle("failed", applied)
  /\ FxCatch
  /\ UNCHANGED <<cfg, clocks, invoc, scrape, submit, fxLoad, audit>>

\* const tx4 = await oracleHub.setBand(ngnAsset, bandLoad)
FxSetBandSubmit ==
  /\ pc = "fxBand"
  /\ log' = Issue("setBand", ngnAsset)
  /\ pc' = "fxBandWait"
  /\ UNCHANGED <<cfg, clocks, invoc, scrape, submit, fx, audit, resp>>

FxSetBandThrow ==
  /\ pc = "fxBand"
  /\ log' = Threw("setBand", ngnAsset)
  /\ FxCatch
  /\ UNCHANGED <<cfg, clocks, invoc, scrape, submit, fxLoad, audit>>

\* await tx4.wait() resolves: bandTxHash = tx4.hash
FxSetBandConfirmed ==
  /\ pc = "fxBandWait"
  /\ log' = Settle("confirmed", TRUE)
  /\ bandTxHash' = Len(log)
  /\ fxState' = "ok"
  /\ AfterFx(Len(log))
  /\ UNCHANGED <<cfg, clocks, invoc, scrape, i, priceTxHash, fxLoad, audit>>

FxSetBandWaitFail(applied) ==
  /\ pc = "fxBandWait"
  /\ log' = Settle("failed", applied)
  /\ FxCatch
  /\ UNCHANGED <<cfg, clocks, invoc, scrape, submit, fxLoad, audit>>

\* ---------------------------------------------------------------- GET: audit
\* AuditEnd, were an audit error to reach the outer catch.
AuditEndFails(outcome) ==
  /\ audit' = outcome
  /\ IF outcome = "failed" THEN Catch ELSE pc' = "done" /\ resp' = Success

\* The audit is over (its catch swallows any error): return the response.
AuditEnd(outcome) ==
  /\ audit' = outcome
  /\ pc' = "done"
  /\ resp' = Success

\* const maxStale = await oracleHub.maxStaleness()
AuditMaxStaleness ==
  /\ pc = "auditMax"
  /\ pc' = "auditNow"
  /\ UNCHANGED <<cfg, clocks, invoc, scrape, submit, log, fx, audit, resp>>

AuditMaxStalenessThrow ==
  /\ pc = "auditMax"
  /\ AuditEnd("failed")
  /\ UNCHANGED <<cfg, clocks, invoc, scrape, submit, log, fx>>

\* const nowChain = await nowSec(provider); then the loop over bandAssets.
AuditNow ==
  /\ pc = "auditNow"
  /\ \E v \in 1..MaxClock, src \in {"chain", "wall"} : NowSec(v, src)
  /\ IF Len(bandAssets) = 0
     THEN AuditEnd("fresh") /\ i' = i
     ELSE pc' = "auditBand" /\ i' = 1 /\ audit' = "fresh" /\ resp' = resp
  /\ UNCHANGED <<cfg, invoc, scrape, priceTxHash, bandTxHash, log, fx>>

\* const b = await oracleHub.getBand(a); fresh = nowChain <= b.ts + maxStale
AuditGetBand(fresh) ==
  /\ pc = "auditBand"
  /\ LET outcome == IF fresh THEN audit ELSE "stale"
     IN IF i < Len(bandAssets)
        THEN pc' = "auditBand" /\ audit' = outcome /\ resp' = resp
        ELSE AuditEnd(outcome)
  /\ i' = i + 1
  /\ UNCHANGED <<cfg, clocks, invoc, scrape, priceTxHash, bandTxHash, log, fx>>

AuditGetBandThrow ==
  /\ pc = "auditBand"
  /\ AuditEnd("failed")
  /\ UNCHANGED <<cfg, clocks, invoc, scrape, submit, log, fx>>

\* ---------------------------------------------------------------- system
Next ==
  \/ Start
  \/ FetchFail
  \/ \E found \in BOOLEAN : FetchOk(found)
  \/ EquityTs
  \/ \E r \in RowPool : ProcessRow(r)
  \/ EndRows
  \/ PricesSkip
  \/ SetPricesSubmit
  \/ SetPricesThrow
  \/ SetPricesConfirmed
  \/ \E applied \in BOOLEAN : SetPricesWaitFail(applied)
  \/ BandsSkip
  \/ NoSetBands
  \/ SetBandsSubmit
  \/ SetBandsThrow
  \/ SetBandsConfirmed
  \/ \E applied \in BOOLEAN : SetBandsWaitFail(applied)
  \/ SetBandSubmit
  \/ SetBandThrow
  \/ SetBandConfirmed
  \/ \E applied \in BOOLEAN : SetBandWaitFail(applied)
  \/ FxTs
  \/ FxFetchThrow
  \/ \E ok \in BOOLEAN : FxFetchStatus(ok)
  \/ FxJsonThrow
  \/ \E p \in UsdPrices : FxJson(p)
  \/ FxSetPriceSubmit
  \/ FxSetPriceThrow
  \/ FxSetPriceConfirmed
  \/ \E applied \in BOOLEAN : FxSetPriceWaitFail(applied)
  \/ FxSetBandSubmit
  \/ FxSetBandThrow
  \/ FxSetBandConfirmed
  \/ \E applied \in BOOLEAN : FxSetBandWaitFail(applied)
  \/ AuditMaxStaleness
  \/ AuditMaxStalenessThrow
  \/ AuditNow
  \/ \E fresh \in BOOLEAN : AuditGetBand(fresh)
  \/ AuditGetBandThrow

Spec == Init /\ [][Next]_vars

\* The steps that end an await of the handler, or its row loop.
Returns ==
  \/ FetchFail
  \/ \E found \in BOOLEAN : FetchOk(found)
  \/ EquityTs
  \/ EndRows
  \/ PricesSkip
  \/ SetPricesSubmit
  \/ SetPricesThrow
  \/ SetPricesConfirmed
  \/ \E applied \in BOOLEAN : SetPricesWaitFail(applied)
  \/ BandsSkip
  \/ NoSetBands
  \/ SetBandsSubmit
  \/ SetBandsThrow
  \/ SetBandsConfirmed
  \/ \E applied \in BOOLEAN : SetBandsWaitFail(applied)
  \/ SetBandSubmit
  \/ SetBandThrow
  \/ SetBandConfirmed
  \/ \E applied \in BOOLEAN : SetBandWaitFail(applied)
  \/ FxTs
  \/ FxFetchThrow
  \/ \E ok \in BOOLEAN : FxFetchStatus(ok)
  \/ FxJsonThrow
  \/ \E p \in UsdPrices : FxJson(p)
  \/ FxSetPriceSubmit
  \/ FxSetPriceThrow
  \/ FxSetPriceConfirmed
  \/ \E applied \in BOOLEAN : FxSetPriceWaitFail(applied)
  \/ FxSetBandSubmit
  \/ FxSetBandThrow
  \/ FxSetBandConfirmed
  \/ \E applied \in BOOLEAN : FxSetBandWaitFail(applied)
  \/ AuditMaxStaleness
  \/ AuditMaxStalenessThrow
  \/ AuditNow
  \/ \E fresh \in BOOLEAN : AuditGetBand(fresh)
  \/ AuditGetBandThrow

\* Every awaited call eventually resolves or rejects, and the loop over the
\* rows of the table ends: a handler that can go on eventually does.
SpecLive == Spec /\ WF_vars(Returns)

\* ---------------------------------------------------------------- parsing
\* The row loop of one request over arbitrary price cells: the handler has
\* fetched the page and found the table (and, nowSec, read its timestamp).
CellChars == {"0", "1", ",", " ", "-", "+", ".", "a", "x"}

CellTexts ==
  UNION {[1..n -> CellChars] : n \in 0..MaxTextLen} \cup {Txt1234, Txt250, TxtDash}

ParseInit ==
  /\ OverlapIdle
  /\ variant \in Handlers
  /\ hasSetBands = FALSE
  /\ hasKey = TRUE
  /\ wall = 1 /\ chain = 1
  /\ moduleNow = IF variant = "moduleNow" THEN wall ELSE 0
  /\ inv = 1
  /\ NothingSent
  /\ pc = "rows"
  /\ fetches = 1 /\ table = "found"
  /\ ts = IF variant = "nowSec" THEN 1 ELSE 0
  /\ rowsRead = 0 /\ tr = NoRow /\ rows = <<>>
  /\ priceAssets = <<>> /\ pricePayloads = <<>>
  /\ bandAssets = <<>> /\ bandPayloads = <<>> /\ warnNoAddr = ""
  /\ i = 0 /\ priceTxHash = 0 /\ bandTxHash = 0 /\ log = <<>>
  /\ tsFx = 0 /\ rateE6 = 0
  /\ priceLoad = NoPayload /\ bandLoad = NoBand /\ fxState = "none"
  /\ audit = "none" /\ resp = NoResp

\* the first row of the table, with any price cell
ParseNext ==
  /\ rowsRead = 0
  /\ \E t \in CellTexts : ProcessRow(Row("MTNN", t, TxtDash, TxtDash))

SpecParse == ParseInit /\ [][ParseNext]_vars

\* ---------------------------------------------------------------- sequence history
\* The requests one after the other, as in Spec, with the sequence values that
\* submitted price transactions carried kept per asset across the requests.
SeqSetPricesSubmit ==
  /\ pc = "prices"
  /\ HasPrices
  /\ log' = Issue("setPrices", "batch")
  /\ seqSent' = Sent(priceAssets, pricePayloads)
  /\ pc' = "pricesWait"
  /\ UNCHANGED <<cfg, clocks, inv, scrape, submit, fx, audit, resp>>

SeqFxSetPriceSubmit ==
  /\ pc = "fxPrice"
  /\ log' = Issue("setPrice", ngnAsset)
  /\ seqSent' = Sent(<<ngnAsset>>, <<priceLoad>>)
  /\ pc' = "fxPriceWait"
  /\ UNCHANGED <<cfg, clocks, inv, scrape, submit, fx, audit, resp>>

SeqNext ==
  \/ Start
  \/ FetchFail
  \/ \E found \in BOOLEAN : FetchOk(found)
  \/ EquityTs
  \/ \E r \in RowPool : ProcessRow(r)
  \/ EndRows
  \/ PricesSkip
  \/ SeqSetPricesSubmit
  \/ SetPricesThrow
  \/ SetPricesConfirmed
  \/ \E applied \in BOOLEAN : SetPricesWaitFail(applied)
  \/ BandsSkip
  \/ NoSetBands
  \/ SetBandsSubmit
  \/ SetBandsThrow
  \/ SetBandsConfirmed
  \/ \E applied \in BOOLEAN : SetBandsWaitFail(applied)
  \/ SetBandSubmit
  \/ SetBandThrow
  \/ SetBandConfirmed
  \/ \E applied \in BOOLEAN : SetBandWaitFail(applied)
  \/ FxTs
  \/ FxFetchThrow
  \/ \E ok \in BOOLEAN : FxFetchStatus(ok)
  \/ FxJsonThrow
  \/ \E p \in UsdPrices : FxJson(p)
  \/ SeqFxSetPriceSubmit
  \/ FxSetPriceThrow
  \/ FxSetPriceConfirmed
  \/ \E applied \in BOOLEAN : FxSetPriceWaitFail(applied)
  \/ FxSetBandSubmit
  \/ FxSetBandThrow
  \/ FxSetBandConfirmed
  \/ \E applied \in BOOLEAN : FxSetBandWaitFail(applied)
  \/ AuditMaxStaleness
  \/ AuditMaxStalenessThrow
  \/ AuditNow
  \/ \E fresh \in BOOLEAN : AuditGetBand(fresh)
  \/ AuditGetBandThrow

SpecSeq == Init /\ [][SeqNext]_vars

\* ---------------------------------------------------------------- overlap
\* Two requests of the deployed handler served at once, each reduced to its
\* equity writes for one surviving row (MTNN); the page fetch, the FX phase and
\* the audit of a request do not touch the equity asset's stored values.  The
\* oracle stores what the latest applied write carried: ostore.price and
\* ostore.band name the request that write came from (0: none of them).
single == <<variant, hasSetBands, hasKey, moduleNow, clocks, invoc, pc, scrape,
            submit, log, fx, audit, resp>>

OAt(id, at) == opc[id] = at
OGo(id, to) == opc' = [opc EXCEPT ![id] = to]
OStore(kind, id, applied) ==
  ostore' = IF applied THEN [ostore EXCEPT ![kind] = id] ELSE ostore

\* OGate, were requests serialized by a lock held from entry to return.
OGateLocked(id) ==
  \A o \in Runs \ {id} : opc[o] \in {"idle", "returned", "failed"}

\* export async function GET(): a request is taken up whenever it arrives;
\* the handler tests and takes no lock.
OGate(id) == TRUE

OStart(id) ==
  /\ OAt(id, "idle")
  /\ OGate(id)
  /\ OGo(id, IF hasKey THEN "prices" ELSE "failed")
  /\ ostarted' = Append(ostarted, id)
  /\ UNCHANGED <<single, ostore>>

OSetPricesSubmit(id) ==
  /\ OAt(id, "prices")
  /\ OGo(id, "pricesWait")
  /\ UNCHANGED <<single, ostarted, ostore>>

OSetPricesThrow(id) ==
  /\ OAt(id, "prices")
  /\ OGo(id, "failed")
  /\ UNCHANGED <<single, ostarted, ostore>>

OSetPricesConfirmed(id) ==
  /\ OAt(id, "pricesWait")
  /\ OStore("price", id, TRUE)
  /\ OGo(id, IF HasBands(variant) THEN "bands" ELSE "returned")
  /\ UNCHANGED <<single, ostarted>>

OSetPricesWaitFail(id, applied) ==
  /\ OAt(id, "pricesWait")
  /\ OStore("price", id, applied)
  /\ OGo(id, "failed")
  /\ UNCHANGED <<single, ostarted>>

OSetBandsSubmit(id) ==
  /\ OAt(id, "bands")
  /\ hasSetBands
  /\ OGo(id, "bandsWait")
  /\ UNCHANGED <<single, ostarted, ostore>>

\* no setBands in the interface, or the call throws: the setBand loop
OSetBandsFallback(id) ==
  /\ OAt(id, "bands")
  /\ OGo(id, "fbCall")
  /\ UNCHANGED <<single, ostarted, ostore>>

OSetBandsConfirmed(id) ==
  /\ OAt(id, "bandsWait")
  /\ OStore("band", id, TRUE)
  /\ OGo(id, "returned")
  /\ UNCHANGED <<single, ostarted>>

OSetBandsWaitFail(id, applied) ==
  /\ OAt(id, "bandsWait")
  /\ OStore("band", id, applied)
  /\ OGo(id, "fbCall")
  /\ UNCHANGED <<single, ostarted>>

OSetBandSubmit(id) ==
  /\ OAt(id, "fbCall")
  /\ OGo(id, "fbWait")
  /\ UNCHANGED <<single, ostarted, ostore>>

OSetBandThrow(id) ==
  /\ OAt(id, "fbCall")
  /\ OGo(id, "failed")
  /\ UNCHANGED <<single, ostarted, ostore>>

OSetBandConfirmed(id) ==
  /\ OAt(id, "fbWait")
  /\ OStore("band", id, TRUE)
  /\ OGo(id, "returned")
  /\ UNCHANGED <<single, ostarted>>

OSetBandWaitFail(id, applied) ==
  /\ OAt(id, "fbWait")
  /\ OStore("band", id, applied)
  /\ OGo(id, "failed")
  /\ UNCHANGED <<single, ostarted>>

OverlapNext ==
  \E id \in Runs :
    \/ OStart(id)
    \/ OSetPricesSubmit(id)
    \/ OSetPricesThrow(id)
    \/ OSetPricesConfirmed(id)
    \/ \E applied \in BOOLEAN : OSetPricesWaitFail(id, applied)
    \/ OSetBandsSubmit(id)
    \/ OSetBandsFallback(id)
    \/ OSetBandsConfirmed(id)
    \/ \E applied \in BOOLEAN : OSetBandsWaitFail(id, applied)
    \/ OSetBandSubmit(id)
    \/ OSetBandThrow(id)
    \/ OSetBandConfirmed(id)
    \/ \E applied \in BOOLEAN : OSetBandWaitFail(id, applied)

SpecOverlap == Init /\ [][OverlapNext]_vars

\* ================================================================ claims
\* Helpers of the claims' formulas.
WaitPcs == {"pricesWait", "bandsWait", "fbWait", "fxPriceWait", "fxBandWait"}

\* the per-asset setBand calls of the equity band phase, by ledger index
EquityBandCalls ==
  {k \in 1..Len(log) : log[k].op = "setBand" /\ log[k].asset # ngnAsset}

\* every oracle write of the equity phases
EquityWrites ==
  {k \in 1..Len(log) : log[k].op \in {"setPrices", "setBands"}} \cup EquityBandCalls

\* the per-asset fallback was entered
FallbackEntered == pc \in {"fbCall", "fbWait"} \/ EquityBandCalls # {}

\* hash of the last confirmed call among `calls` (0 = null when none)
LastConfirmed(calls) ==
  LET ok == {k \in calls : log[k].st = "confirmed"}
  IN IF ok = {} THEN 0 ELSE CHOOSE k \in ok : \A j \in ok : j <= k

\* the loop over the table's rows has run to its end
LoopDone ==
  /\ pc \notin {"idle", "fetch", "ts", "rows"}
  /\ \/ table = "found"
     \/ variant = "pricesOnly" /\ table = "missing"

\* C1: a failure anywhere in the FX phase never turns the response into the
\* failure response, and the response still reports the counts (and the price
\* transaction) of the equity phase.
C1_FxFailureIsolated ==
  fxState = "failed" =>
    /\ resp.shape # "error"
    /\ pc = "done" =>
         /\ resp.success
         /\ resp.pricesUpdated = Len(rows)
         /\ resp.bandsUpdated = Len(rows)
         /\ resp.priceTxHash = priceTxHash

C1_Witness ==
  /\ pc = "done" /\ fxState = "failed"
  /\ resp.success /\ resp.pricesUpdated = 2 /\ resp.bandsUpdated = 2
  /\ \E k \in 1..Len(log) : log[k].op = "setPrice" /\ log[k].st = "failed"

\* C2 (as claimed): once the per-asset fallback was entered, the invocation
\* issues exactly N setBand calls, one per surviving asset, and a success
\* response reports the hash of the last confirmed per-asset call as bandTxHash.
C2_FallbackIssuesNCalls ==
  (pc = "done" /\ FallbackEntered) =>
    /\ Cardinality(EquityBandCalls) = Len(bandAssets)
    /\ resp.success => resp.bandTxHash = LastConfirmed(EquityBandCalls)

\* C3 (as claimed): in the per-asset fallback a failed setBand does not end the
\* loop; by the time the invocation returns every band asset had its call.
C3_FallbackContinues ==
  (pc = "done" /\ FallbackEntered) =>
    \A j \in 1..Len(bandAssets) :
      \E k \in EquityBandCalls : log[k].asset = bandAssets[j]

\* C4: a setPrices call that throws, or whose confirmation fails, ends the
\* invocation with the failure response: it is the last write of the ledger,
\* no FX step and no audit read follows, and no per-asset price call exists.
C4_PriceFailureFatal ==
  \A k \in 1..Len(log) :
    (log[k].op = "setPrices" /\ log[k].st \in {"threw", "failed"}) =>
      /\ pc = "done" /\ resp = Failure
      /\ k = Len(log)
      /\ fxState = "none" /\ audit = "none"

C4_Witness ==
  /\ pc = "done" /\ resp = Failure /\ Len(rows) = 2
  /\ Len(log) = 1 /\ log[1].op = "setPrices" /\ log[1].st = "failed"

C6_IngestionFailsClosed ==
  /\ fetches <= 1
  /\ (fetches = 1 /\ table \in {"none", "missing"}) =>
       (pc = "done" /\ resp = Failure /\ log = <<>>)

\* C7: with an empty asset list no setPrices, setBands or per-asset equity
\* setBand is ever issued, and the invocation returns success with zero counts
\* and a null priceTxHash.
C7_EmptyListSkipsWrites ==
  (LoopDone /\ Len(priceAssets) = 0) =>
    /\ EquityWrites = {}
    /\ pc = "done" =>
         /\ resp.success
         /\ resp.shape = "full" =>
              (resp.pricesUpdated = 0 /\ resp.bandsUpdated = 0 /\ resp.priceTxHash = 0)
         /\ resp.shape = "count" => resp.count = 0

C7_Witness ==
  /\ pc = "done" /\ variant = "nowSec" /\ table = "found"
  /\ Len(priceAssets) = 0 /\ resp.success /\ resp.pricesUpdated = 0
  /\ fxState = "ok" /\ audit = "fresh"

\* C8 (as claimed): when the payloads of an invocation have been built, all
\* equity price and band payloads carry one timestamp, and it is a snapshot of
\* this invocation: the current chain time or the current wall clock.
C8_SingleFreshSnapshot ==
  pc = "prices" =>
    /\ \A k \in 1..Len(pricePayloads) :
         /\ pricePayloads[k].ts = pricePayloads[1].ts
         /\ pricePayloads[k].ts \in {wall, chain}
    /\ \A k \in 1..Len(bandPayloads) :
         /\ bandPayloads[k].ts = pricePayloads[1].ts
         /\ bandPayloads[k].ts \in {wall, chain}

\* C9 (as claimed): the FX price payload and the FX band payload carry one
\* timestamp, a snapshot taken inside the FX phase: the current chain time or
\* the current wall clock when the FX payloads are built.
C9_FxFreshSnapshot ==
  pc = "fxPrice" =>
    /\ priceLoad.ts = bandLoad.ts
    /\ priceLoad.ts \in {wall, chain}

\* C10: a row that passes the watchlist, the mapping and the price parse adds
\* exactly one entry to each array (same asset, priceFixed the integer nearest
\* to price x 1e6, band mid = priceFixed), whether or not its percentages
\* parse; any other row adds nothing; the arrays stay aligned and the response
\* reports their length as pricesUpdated and bandsUpdated.
C10_Passes(r) ==
  /\ r.code \in TARGET_SET
  /\ Env(r.code) # ""
  /\ toNumber(Trim(r.price)).ok

\* z is the integer nearest to n * 1e6
C10_Nearest(n, z) ==
  LET m == IF n.neg THEN 0 - n.mant ELSE n.mant
      d == Pow10(n.frac - 6)
      diff == z * d - m
  IN IF n.frac <= 6 THEN z = m * Pow10(6 - n.frac)
     ELSE 2 * (IF diff < 0 THEN 0 - diff ELSE diff) <= d

C10_Extends(old, new) == Len(new) = Len(old) + 1 /\ SubSeq(new, 1, Len(old)) = old

C10_RowStep ==
  (pc = "rows" /\ pc' = "rows") =>
    IF C10_Passes(tr')
    THEN /\ C10_Extends(priceAssets, priceAssets')
         /\ C10_Extends(pricePayloads, pricePayloads')
         /\ priceAssets'[Len(priceAssets')] = Env(tr'.code)
         /\ C10_Nearest(toNumber(Trim(tr'.price)),
                        pricePayloads'[Len(pricePayloads')].priceE6)
         /\ HasBands(variant) =>
              /\ C10_Extends(bandAssets, bandAssets')
              /\ C10_Extends(bandPayloads, bandPayloads')
    ELSE UNCHANGED <<priceAssets, pricePayloads, bandAssets, bandPayloads>>

C10_Aligned ==
  /\ Len(pricePayloads) = Len(priceAssets)
  /\ HasBands(variant) =>
       /\ Len(bandAssets) = Len(priceAssets)
       /\ Len(bandPayloads) = Len(priceAssets)
       /\ \A k \in 1..Len(priceAssets) :
            /\ bandAssets[k] = priceAssets[k]
            /\ bandPayloads[k].midE6 = pricePayloads[k].priceE6
  /\ (pc = "done" /\ resp.shape = "full") =>
       (resp.pricesUpdated = Len(priceAssets) /\ resp.bandsUpdated = Len(priceAssets))
  /\ (pc = "done" /\ resp.shape = "count") => resp.count = Len(priceAssets)

C10_PayloadArrays == [][C10_RowStep /\ C10_Aligned']_vars

C10_Witness ==
  /\ pc = "done" /\ resp.success
  /\ resp.pricesUpdated = 2 /\ resp.bandsUpdated = 2
  /\ pricePayloads[1].priceE6 = 250500000
  /\ bandPayloads[1].midE6 = 250500000
  /\ bandPayloads[1].widthBps = 150
  /\ rows[2].day = Null /\ rows[2].ytd = Null

\* the addresses configured for watchlist tickers
WatchlistAssets == {Env(c) : c \in TARGET_SET} \ {""}

\* C11: a row whose code is empty or outside the watchlist adds nothing to
\* the asset, payload and record arrays and logs no missing-mapping warning,
\* whatever its price text and whether or not an address is configured for its
\* code; so no array that is submitted ever holds an off-watchlist asset.
C11_OffList(r) == r.code = "" \/ r.code \notin TARGET_SET

C11_RowStep ==
  (pc = "rows" /\ pc' = "rows" /\ C11_OffList(tr')) =>
    /\ UNCHANGED <<rows, priceAssets, pricePayloads, bandAssets, bandPayloads>>
    /\ warnNoAddr' = ""

C11_Clean ==
  /\ \A k \in 1..Len(priceAssets) : priceAssets[k] \in WatchlistAssets
  /\ \A k \in 1..Len(bandAssets) : bandAssets[k] \in WatchlistAssets
  /\ \A k \in 1..Len(rows) : rows[k].ticker \in TARGET_SET
  /\ \A k \in 1..Len(log) : log[k].asset \in WatchlistAssets \cup {"batch", ngnAsset}

C11_WatchlistFilter == [][C11_RowStep /\ C11_Clean']_vars

C11_Witness ==
  /\ pc = "rows" /\ tr.code = "XYZ" /\ Env(tr.code) # ""
  /\ toNumber(Trim(tr.price)).ok
  /\ rowsRead = 2 /\ Len(priceAssets) = 1 /\ warnNoAddr = ""

\* C12: a watchlist row with a parsable price and no configured address logs
\* the warning and adds nothing; the handler stays in the row loop with no
\* response set, and from there it only takes up the next row or goes on to
\* the price phase with the arrays the other rows built.
C12_Unmapped(r) ==
  /\ r.code \in TARGET_SET
  /\ toNumber(Trim(r.price)).ok
  /\ Env(r.code) = ""

C12_RowStep ==
  (pc = "rows" /\ pc' = "rows" /\ C12_Unmapped(tr')) =>
    /\ UNCHANGED <<rows, priceAssets, pricePayloads, bandAssets, bandPayloads>>
    /\ warnNoAddr' = tr'.code
    /\ resp' = resp /\ resp.shape = "none"

C12_GoesOn ==
  (pc = "rows" /\ warnNoAddr # "") =>
    /\ pc' \in {"rows", "prices"}
    /\ pc' = "prices" =>
         UNCHANGED <<priceAssets, pricePayloads, bandAssets, bandPayloads>>

C12_MissingMappingWarns == [][C12_RowStep /\ C12_GoesOn]_vars

C12_Witness ==
  /\ pc = "rows" /\ tr.code = "GTCO" /\ warnNoAddr = "GTCO"
  /\ rowsRead = 2 /\ Len(priceAssets) = 1 /\ priceAssets[1] = "0xA1"
  /\ resp.shape = "none"

\* C13 (as claimed): every price payload handed to a price call (setPrices,
\* FX setPrice) has priceE6 >= 0 and every band payload has midE6 >= 0,
\* whatever the price texts of the page, a leading minus sign included.
C13_NonNegativeFixed ==
  /\ (pc \in {"prices", "pricesWait"} /\ HasPrices) =>
       /\ \A k \in 1..Len(pricePayloads) : pricePayloads[k].priceE6 >= 0
       /\ \A k \in 1..Len(bandPayloads) : bandPayloads[k].midE6 >= 0
  /\ pc \in {"fxPrice", "fxPriceWait"} =>
       (priceLoad.priceE6 >= 0 /\ bandLoad.midE6 >= 0)

\* C14 (as claimed): when the rate fetch does not answer with status 200,
\* because it answered with another status or because it threw, the rate is
\* the default 1500 and the handler goes on to submit the FX price with it.
C14_FallbackStep ==
  (pc = "fxFetch" /\ pc' # "fxJson") =>
    /\ pc' = "fxPrice"
    /\ rateE6' = DEFAULT_RATE * 1000000
    /\ priceLoad'.priceE6 = DEFAULT_RATE * 1000000
    /\ bandLoad'.midE6 = DEFAULT_RATE * 1000000

C14_FallbackRate == [][C14_FallbackStep]_vars

\* C15: the freshness audit only reads: no step of it adds or changes an
\* oracle write or a transaction hash, and whatever its outcome (all fresh, an
\* asset stale, maxStaleness or a getBand throwing, on the first asset too) the
\* response is the success response built from the equity and FX results.
AuditPcs == {"auditMax", "auditNow", "auditBand"}

C15_AuditStep ==
  pc \in AuditPcs =>
    /\ UNCHANGED <<log, priceTxHash, bandTxHash, priceAssets, bandAssets>>
    /\ pc' \in AuditPcs \cup {"done"}

C15_AuditResponse ==
  (pc = "done" /\ audit # "none") =>
    resp = [shape |-> "full", success |-> TRUE,
            pricesUpdated |-> Len(rows), bandsUpdated |-> Len(rows),
            priceTxHash |-> priceTxHash, bandTxHash |-> bandTxHash, count |-> 0]

C15_AuditDiagnosticOnly == [][C15_AuditStep /\ C15_AuditResponse']_vars

C15_Witness ==
  /\ pc = "done" /\ audit = "failed"
  /\ Len(bandAssets) = 2 /\ i = 1
  /\ resp.success /\ resp.bandsUpdated = 2 /\ resp.bandTxHash # 0

\* C16 (as claimed): toNumber returns null exactly when the text without commas and
\* spaces is empty, is "-", or is no decimal number; otherwise it returns the
\* number the cleaned text denotes; and a watchlist row with a configured
\* address is dropped exactly when toNumber of its price cell is null.
C16_Clean(t) == SelectSeq(t, LAMBDA c : c \notin {",", " "})

C16_Body(s) == IF s # <<>> /\ s[1] \in {"+", "-"} THEN SubSeq(s, 2, Len(s)) ELSE s

C16_IsDecimal(s) ==
  LET b == C16_Body(s)
  IN /\ \A k \in 1..Len(b) : b[k] \in Digits \cup {"."}
     /\ Cardinality({k \in 1..Len(b) : b[k] = "."}) <= 1
     /\ \E k \in 1..Len(b) : b[k] \in Digits

\* the digits after the decimal point of a body
C16_Places(b) ==
  IF \E k \in 1..Len(b) : b[k] = "."
  THEN Len(b) - (CHOOSE k \in 1..Len(b) : b[k] = ".")
  ELSE 0

\* the digits of a body read as one integer, most significant first
RECURSIVE C16_Read(_, _)
C16_Read(b, acc) ==
  IF b = <<>> THEN acc
  ELSE IF Head(b) = "." THEN C16_Read(Tail(b), acc)
  ELSE C16_Read(Tail(b), 10 * acc + DigitVal(Head(b)))

C16_NullCase(t) ==
  LET s == C16_Clean(t)
  IN s = <<>> \/ s = <<"-">> \/ ~C16_IsDecimal(s)

\* n is the number the cleaned text of t denotes
C16_Denotes(t, n) ==
  LET s == C16_Clean(t)
      b == C16_Body(s)
      want == (IF s[1] = "-" THEN 0 - 1 ELSE 1) * C16_Read(b, 0)
      got == (IF n.neg THEN 0 - 1 ELSE 1) * n.mant
  IN n.ok /\ got * Pow10(C16_Places(b)) = want * Pow10(n.frac)

C16_Parses(t) ==
  IF C16_NullCase(t) THEN toNumber(t) = Null ELSE C16_Denotes(t, toNumber(t))

C16_Examples ==
  /\ toNumber(Txt1234) = Num(FALSE, 123450, 2)
  /\ toNumber(<<"-">>) = Null
  /\ toNumber(<<>>) = Null

C16_RowStep ==
  (pc = "rows" /\ pc' = "rows") =>
    /\ C16_Parses(tr'.price)
    /\ C16_Examples
    /\ (rows' = rows) <=> C16_NullCase(tr'.price)
    /\ (rows' # rows) => rows'[Len(rows')].price = toNumber(tr'.price)

C16_ToNumber == [][C16_RowStep]_vars

\* C17: when the interface has setBands, the batch call is the first band
\* call of the invocation and is made once, with the complete arrays of the N
\* surviving rows; when it and its confirmation succeed no per-asset setBand
\* for an equity asset is issued in that invocation.
C17_BatchCalls == {k \in 1..Len(log) : log[k].op = "setBands"}

C17_BatchOnce ==
  /\ Cardinality(C17_BatchCalls) <= 1
  /\ ~hasSetBands => C17_BatchCalls = {}
  /\ (hasSetBands /\ EquityBandCalls # {}) =>
       \E b \in C17_BatchCalls :
         /\ log[b].st \in {"threw", "failed"}
         /\ \A k \in EquityBandCalls : b < k
  /\ (\E b \in C17_BatchCalls : log[b].st \in {"pending", "confirmed"}) =>
       EquityBandCalls = {}
  /\ (pc = "done" /\ resp.success /\ hasSetBands /\ Len(bandAssets) > 0
        /\ EquityBandCalls = {}) =>
       \E b \in C17_BatchCalls : log[b].st = "confirmed"

\* the step that issues the batch call hands over all N pairs
C17_BatchStep ==
  (Len(log') > Len(log) /\ log'[Len(log')].op = "setBands") =>
    /\ hasSetBands
    /\ Len(bandAssets) = Len(rows) /\ Len(bandPayloads) = Len(rows)
    /\ Len(rows) > 0
    /\ UNCHANGED <<bandAssets, bandPayloads>>

C17_BatchFirst == [][C17_BatchStep /\ C17_BatchOnce']_vars

C17_Witness ==
  /\ pc = "done" /\ resp.success /\ hasSetBands
  /\ Len(bandAssets) = 2 /\ resp.bandsUpdated = 2
  /\ Len(log) = 2 /\ log[2].op = "setBands" /\ log[2].st = "confirmed"
  /\ resp.bandTxHash = 2

\* C19 (as claimed): in every price payload handed to a price call the
\* sequence field equals the payload's own timestamp, and so all equity
\* payloads of one batch carry one and the same sequence value.
C19_SeqIsTs ==
  /\ (pc \in {"prices", "pricesWait"} /\ HasPrices) =>
       /\ \A k \in 1..Len(pricePayloads) : pricePayloads[k].seq = pricePayloads[k].ts
       /\ \A j, k \in 1..Len(pricePayloads) : pricePayloads[j].seq = pricePayloads[k].seq
  /\ pc \in {"fxPrice", "fxPriceWait"} => priceLoad.seq = priceLoad.ts

\* C18: if every awaited call eventually returns or throws, every invocation
\* eventually returns; it has no response before it returns and returns one
\* of the success shape or of the failure shape; an error of setPrices or of a
\* per-asset equity setBand gives the failure shape; and a confirmation wait
\* is left only by that transaction's settling (nothing times it out).
C18_OneResponse ==
  /\ pc # "done" => resp.shape = "none"
  /\ pc = "done" =>
       /\ resp.shape \in {"full", "count", "error"}
       /\ resp.success <=> resp.shape # "error"
       /\ resp.shape = "error" => resp = Failure

C18_MainPathErrors ==
  \A k \in 1..Len(log) :
    (/\ log[k].op = "setPrices" \/ k \in EquityBandCalls
     /\ log[k].st \in {"threw", "failed"})
      => (pc = "done" /\ resp.shape = "error")

C18_WaitStep ==
  pc \in WaitPcs =>
    /\ log[Len(log)].st = "pending"
    /\ Len(log') = Len(log)
    /\ log'[Len(log)].st \in {"confirmed", "failed"}

C18_Terminates ==
  /\ (pc \notin {"idle", "done"}) ~> (pc = "done")
  /\ [](C18_OneResponse /\ C18_MainPathErrors)
  /\ [][C18_WaitStep]_vars

C18_Witness ==
  /\ inv = 2 /\ pc = "done" /\ resp.shape = "error"
  /\ Len(log) = 3 /\ log[3].op = "setBand" /\ log[3].st = "failed"
  /\ log[1].st = "confirmed"

\* C20: overlapping requests are not mutually excluded: a request that has
\* arrived can start whatever the other one is doing, and what the oracle
\* stores is the latest applied write of whichever request issued it, so the
\* stored price and the stored band can come from different requests.
C20_NotExcluded ==
  \A id \in Runs :
    /\ opc[id] = "idle" => ENABLED OStart(id)
    /\ ostore.price = id =>
         opc[id] \in {"bands", "bandsWait", "fbCall", "fbWait", "returned", "failed"}
    /\ ostore.band = id => opc[id] \in {"fbCall", "fbWait", "returned", "failed"}

\* the price stored is the later request's, the band stored is the earlier
\* request's, whose band write landed after the later request had returned
C20_Witness ==
  /\ ostarted = <<1, 2>>
  /\ opc[1] = "returned" /\ opc[2] = "returned"
  /\ ostore = [price |-> 2, band |-> 1]

\* C21: a success response that reports bandsUpdated = N > 0 was preceded, in
\* this invocation, by one confirmed setBands batch over the N assets or by a
\* confirmed per-asset setBand for each of the N assets; so a success response
\* never reports more bands than were confirmed.
C21_ConfirmedCalls == {k \in EquityBandCalls : log[k].st = "confirmed"}

C21_BatchConfirmed == \E b \in C17_BatchCalls : log[b].st = "confirmed"

\* the number of equity bands confirmed in this invocation
C21_Confirmed ==
  IF C21_BatchConfirmed THEN Len(bandAssets)
  ELSE Cardinality({bandAssets[j] : j \in {j \in 1..Len(bandAssets) :
                      \E k \in C21_ConfirmedCalls : log[k].asset = bandAssets[j]}})

C21_BandsConfirmed ==
  (pc = "done" /\ resp.success /\ resp.shape = "full") =>
    /\ resp.bandsUpdated = Len(bandAssets)
    /\ resp.bandsUpdated <= C21_Confirmed
    /\ resp.bandsUpdated > 0 =>
         \/ C21_BatchConfirmed /\ EquityBandCalls = {}
         \/ /\ ~C21_BatchConfirmed
            /\ Cardinality(C21_ConfirmedCalls) = resp.bandsUpdated
            /\ \A j \in 1..Len(bandAssets) :
                 \E k \in C21_ConfirmedCalls : log[k].asset = bandAssets[j]
            /\ \A k \in EquityBandCalls : log[k].st = "confirmed"

\* the batch failed at its wait, then both per-asset calls were confirmed
C21_Witness ==
  /\ pc = "done" /\ resp.success /\ resp.bandsUpdated = 2
  /\ variant = "rowNow"
  /\ Len(log) = 4 /\ log[2].op = "setBands" /\ log[2].st = "failed"
  /\ log[3].st = "confirmed" /\ log[4].st = "confirmed"
  /\ log[3].asset # log[4].asset

\* C22 (as claimed): in a success response priceTxHash is null exactly when
\* pricesUpdated = 0 and bandTxHash is null exactly when bandsUpdated = 0; a
\* bandTxHash that is not null is the hash of the setBands batch or of a
\* per-asset setBand of a watchlist asset, whatever the FX phase did.
C22_HashesMatchCounts ==
  (pc = "done" /\ resp.success /\ resp.shape = "full") =>
    /\ (resp.priceTxHash = 0) <=> (resp.pricesUpdated = 0)
    /\ (resp.bandTxHash = 0) <=> (resp.bandsUpdated = 0)
    /\ resp.bandTxHash # 0 =>
         (resp.bandTxHash \in C17_BatchCalls \cup EquityBandCalls)

\* C23 (as claimed): within one invocation no equity asset's band is applied
\* more than once: the per-asset fallback is entered only when the setBands
\* batch did not take effect, so no per-asset setBand is issued after a batch
\* that took effect.
C23_BatchApplied == \E b \in C17_BatchCalls : log[b].applied

\* how many applied writes carried the band of asset a
C23_Applied(a) ==
  (IF C23_BatchApplied THEN 1 ELSE 0)
    + Cardinality({k \in EquityBandCalls : log[k].asset = a /\ log[k].applied})

C23_BandAppliedOnce ==
  /\ \A j \in 1..Len(bandAssets) : C23_Applied(bandAssets[j]) <= 1
  /\ FallbackEntered => ~C23_BatchApplied

\* C24 (as claimed): the sequence value a price transaction carries for an
\* asset is never lower than one submitted for that asset by an earlier
\* invocation, whichever clock each snapshot came from; and within one
\* invocation the FX timestamp is not earlier than any equity timestamp.
C24_SubmitStep ==
  /\ (pc = "prices" /\ pc' = "pricesWait") =>
       \A k \in 1..Len(priceAssets) : pricePayloads[k].seq >= seqSent[priceAssets[k]]
  /\ (pc = "fxPrice" /\ pc' = "fxPriceWait") => priceLoad.seq >= seqSent[ngnAsset]

C24_FxAfterEquity ==
  pc = "fxPrice" =>
    \A k \in 1..Len(pricePayloads) : priceLoad.ts >= pricePayloads[k].ts

C24_SeqNeverDecreases == [][C24_SubmitStep /\ C24_FxAfterEquity']_vars

\* C25: in a handler with an FX phase, the phase is entered exactly when the
\* equity price and band path ends without an error (with no surviving asset
\* too) and never after an error that reached the outer catch; in the handler
\* with the audit, the audit is entered when the FX phase ends, whether it
\* succeeded or failed, and from nowhere else.
EquityPcs == {"fetch", "ts", "rows", "prices", "pricesWait", "bands", "bandsWait",
              "fbCall", "fbWait"}

FxPcs == {"fxTs", "fxFetch", "fxJson", "fxPrice", "fxPriceWait", "fxBand",
          "fxBandWait"}

\* the equity path ran to its end and every write it needed was confirmed
C25_EquityComplete ==
  /\ LoopDone
  /\ resp.shape = "none"
  /\ HasPrices =>
       \E k \in 1..Len(log) : log[k].op = "setPrices" /\ log[k].st = "confirmed"
  /\ C21_Confirmed = Len(bandAssets)
  /\ \A k \in EquityBandCalls : log[k].st = "confirmed"

C25_FxStep ==
  /\ (pc \notin FxPcs /\ pc' \in FxPcs) =>
       (HasFx(variant) /\ pc \in EquityPcs /\ C25_EquityComplete')
  /\ (HasFx(variant) /\ pc \in EquityPcs /\ pc' \notin EquityPcs) =>
       \/ pc' \in FxPcs
       \/ pc' = "done" /\ resp' = Failure

C25_AuditStep ==
  /\ (pc \notin AuditPcs /\ pc' \in AuditPcs) =>
       (HasAudit(variant) /\ pc \in FxPcs /\ fxState' \in {"ok", "failed"})
  /\ (HasAudit(variant) /\ pc \in FxPcs /\ pc' \notin FxPcs) => pc' = "auditMax"

C25_NoFxAfterError ==
  resp.shape = "error" =>
    /\ fxState = "none" /\ audit = "none" /\ tsFx = 0
    /\ \A k \in 1..Len(log) : log[k].asset # ngnAsset

C25_PhaseOrder == [][C25_FxStep /\ C25_AuditStep /\ C25_NoFxAfterError']_vars

\* no asset survived; the FX price write failed; the audit is being attempted
C25_Witness ==
  /\ pc = "auditMax" /\ table = "found" /\ Len(priceAssets) = 0
  /\ fxState = "failed"
  /\ Len(log) = 1 /\ log[1].op = "setPrice" /\ log[1].st = "failed"

\* the writes of the FX phase, by ledger index
FxPriceCalls == {k \in 1..Len(log) : log[k].op = "setPrice"}
FxBandCalls == {k \in 1..Len(log) : log[k].op = "setBand" /\ log[k].asset = ngnAsset}

\* the FX setBand is issued once, right after the one FX setPrice was
\* confirmed; a failed FX setPrice is the last write of the FX phase
C26_BandAfterPrice ==
  /\ Cardinality(FxPriceCalls) <= 1 /\ Cardinality(FxBandCalls) <= 1
  /\ \A b \in FxBandCalls :
       /\ b - 1 \in FxPriceCalls
       /\ log[b - 1].st = "confirmed" /\ log[b - 1].applied
  /\ \A q \in FxPriceCalls :
       log[q].st \in {"threw", "failed"} =>
         (FxBandCalls = {} /\ q = Len(log) /\ fxState = "failed")

\* after a failed FX setBand nothing more is written (no rollback, no retry),
\* the price write stands and the response is not the failure response
C26_NoRollback ==
  \A b \in FxBandCalls :
    log[b].st \in {"threw", "failed"} =>
      /\ b = Len(log)
      /\ log[b - 1].st = "confirmed" /\ log[b - 1].applied
      /\ fxState = "failed"
      /\ resp.shape # "error"
      /\ pc = "done" => (resp.success /\ resp.shape = "full")

\* C26 (as claimed): the FX band update is issued only after the FX price
\* update was confirmed; a failed FX setPrice (call or confirmation) is
\* followed by no FX setBand; and after a failed FX setBand the synthetic asset
\* has its new price and its old band, nothing is rolled back and the response
\* stays a success.
C26_FxPriceThenBand ==
  /\ C26_BandAfterPrice
  /\ C26_NoRollback
  /\ \A b \in FxBandCalls : log[b].st \in {"threw", "failed"} => ~log[b].applied

\* C26 (amended): as claimed, except that the band is the old one only when
\* the failed setBand did not take effect: when the call threw, or when its
\* transaction was not applied; a confirmation wait that rejects after the
\* transaction took effect leaves the new band.
C26_FxPriceThenBandAmended ==
  /\ C26_BandAfterPrice
  /\ C26_NoRollback
  /\ \A b \in FxBandCalls : log[b].st = "threw" => ~log[b].applied
  /\ \A b \in FxBandCalls : log[b].applied => log[b].st \in {"confirmed", "failed"}

\* one equity asset written, FX price confirmed, FX band failed at its wait
C26_Witness ==
  /\ pc = "done" /\ resp.success /\ resp.bandsUpdated = 1
  /\ fxState = "failed" /\ Len(log) = 4
  /\ log[3].op = "setPrice" /\ log[3].st = "confirmed"
  /\ log[4].op = "setBand" /\ log[4].asset = ngnAsset /\ log[4].st = "failed"
  /\ ~log[4].applied

====
